---- MODULE Spec2Model ----
(***************************************************************************)
(* Model of src/ingest.py: the DocumentIngestor chunker (create_chunks)    *)
(* and the batched embed-and-store pipeline (process_file,                 *)
(* process_directory).                                                     *)
(*                                                                         *)
(* Strings.  A Python str is a sequence of integers, run-length encoded:   *)
(*   0   one whitespace character,                                         *)
(*   -1  one period '.',                                                   *)
(*   n>0 a run of n characters that are neither whitespace nor a period.   *)
(* The code only ever cuts a string at a period (split('.')) or at         *)
(* whitespace (strip(), split()), so a run is never cut, and len() is the  *)
(* sum of the run lengths.  This keeps chunk_size at its real value, 1000. *)
(***************************************************************************)
EXTENDS Integers, Sequences, FiniteSets, TLC

VARIABLES
    \* ---- create_chunks as a pure function: its arguments and its result
    text,          \* the text argument
    metadata,      \* the metadata argument
    result,        \* the returned list of chunks
    cpc,           \* "input" before the call, "returned" after it
    \* ---- process_directory / process_file
    dirExists,     \* whether directory_path exists
    tree,          \* the entries of the directory tree, in enumeration order
    files,         \* the collected list: files[f] is the text file f holds
    fileIdx,       \* position of the for loop of process_directory (1-based)
    pc,            \* control point
    processed,     \* counter of process_directory
    failed,        \* counter of process_directory
    content,       \* process_file: extracted text
    chunks,        \* process_file: list of chunks of the current file
    i,             \* process_file: start offset of the current batch
    embeddings,    \* process_file: vectors returned for the current batch
    ret,           \* value process_file returned (read at pc = "returned")
    table,         \* rows of the store table document_chunks
    now,           \* wall clock, in sleeps
    requests,      \* number of embedding requests issued so far
    chunked,       \* history: chunked[f] is the list create_chunks gave file f
    sent,          \* history: the input of every embedding request, in order
    inserts,       \* history: the rows of every insert, in order
    calls          \* history: every call issued, in order

vars == << text, metadata, result, cpc, dirExists, tree, files, fileIdx, pc,
           processed, failed, content, chunks, i, embeddings, ret, table, now,
           requests, chunked, sent, inserts, calls >>

chunkVars == << text, metadata, result, cpc >>
pipeVars == << dirExists, tree, files, fileIdx, pc, processed, failed, content,
               chunks, i, embeddings, ret, table, now, requests, chunked, sent,
               inserts, calls >>

(***************************************************************************)
(* Program constants                                                       *)
(***************************************************************************)
chunk_size == 1000
batch_size == 10
overlap_count == 20

(***************************************************************************)
(* Bounds of the model                                                     *)
(***************************************************************************)
MaxPieces == 5
MaxFiles == 2

(***************************************************************************)
(* Python str operations                                                   *)
(***************************************************************************)
Sp == 0
Dot == -1

CharLen(c) == IF c > 0 THEN c ELSE 1

RECURSIVE StrLen(_)
StrLen(s) == IF s = << >> THEN 0 ELSE CharLen(Head(s)) + StrLen(Tail(s))

RECURSIVE lstrip(_)
lstrip(s) == IF s # << >> /\ Head(s) = Sp THEN lstrip(Tail(s)) ELSE s

RECURSIVE rstrip(_)
rstrip(s) ==
    IF s # << >> /\ s[Len(s)] = Sp THEN rstrip(SubSeq(s, 1, Len(s) - 1)) ELSE s

strip(s) == rstrip(lstrip(s))

\* str.split(sep) for a one-character separator: n separators give n+1 pieces
RECURSIVE split(_, _)
split(s, sep) ==
    IF \A k \in 1..Len(s) : s[k] # sep
    THEN << s >>
    ELSE LET k == CHOOSE k \in 1..Len(s) :
                      s[k] = sep /\ \A j \in 1..(k - 1) : s[j] # sep
         IN  << SubSeq(s, 1, k - 1) >> \o split(SubSeq(s, k + 1, Len(s)), sep)

\* str.split() without argument: the maximal runs of non-whitespace
RECURSIVE split_ws(_)
split_ws(s) ==
    LET t == lstrip(s) IN
    IF t = << >> THEN << >>
    ELSE LET stops == {k \in 1..Len(t) : t[k] = Sp}
             n == IF stops = {} THEN Len(t) + 1
                  ELSE CHOOSE k \in stops : \A j \in stops : k <= j
         IN  << SubSeq(t, 1, n - 1) >> \o split_ws(SubSeq(t, n, Len(t)))

\* sep.join(parts)
RECURSIVE join(_, _)
join(sep, parts) ==
    IF parts = << >> THEN << >>
    ELSE IF Len(parts) = 1 THEN parts[1]
    ELSE parts[1] \o sep \o join(sep, Tail(parts))

\* seq[-n:]
LastN(seq, n) ==
    IF Len(seq) <= n THEN seq ELSE SubSeq(seq, Len(seq) - n + 1, Len(seq))

\* seq[a:b] with 0-based a, exclusive b, clipped at the end as Python does
Slice(seq, a, b) ==
    SubSeq(seq, a + 1, IF b < Len(seq) THEN b ELSE Len(seq))

RECURSIVE MapStrip(_)
MapStrip(parts) ==
    IF parts = << >> THEN << >>
    ELSE << strip(Head(parts)) >> \o MapStrip(Tail(parts))

NonBlank(s) == strip(s) # << >>

(***************************************************************************)
(* create_chunks                                                           *)
(***************************************************************************)
\* line 64: [s.strip() for s in text.split('.') if s.strip()]
Sentences(t) == MapStrip(SelectSeq(split(t, Dot), NonBlank))

\* {**metadata, 'chunk_index': n}
WithChunkIndex(m, n) ==
    [k \in (DOMAIN m) \cup {"chunk_index"} |->
        IF k = "chunk_index" THEN n ELSE m[k]]

\* a chunk numbered from 1 instead of from 0
NewChunkOneBased(current_chunk, m, cs) ==
    [content |-> strip(current_chunk),
     metadata |-> WithChunkIndex(m, Len(cs) + 1)]

\* lines 74-77 and 90-93: the chunk appended to chunks
NewChunk(current_chunk, m, cs) ==
    [content |-> strip(current_chunk), metadata |-> WithChunkIndex(m, Len(cs))]

\* the test without the length of the sentence to add
MustCloseLate(current_length, sentence_length, current_chunk) ==
    current_length > chunk_size /\ current_chunk # << >>

\* the test with >= in place of >
MustCloseAtLimit(current_length, sentence_length, current_chunk) ==
    current_length + sentence_length >= chunk_size /\ current_chunk # << >>

\* the test without "and current_chunk": an empty buffer is closed too
MustCloseEmptyBuffer(current_length, sentence_length, current_chunk) ==
    current_length + sentence_length > chunk_size

\* line 72: the test that closes the buffer
MustClose(current_length, sentence_length, current_chunk) ==
    current_length + sentence_length > chunk_size /\ current_chunk # << >>

\* words[:20] in place of words[-20:]
OverlapWordsFirst(current_chunk) ==
    LET words == split_ws(current_chunk)
    IN  SubSeq(words, 1, IF Len(words) < overlap_count THEN Len(words)
                         ELSE overlap_count)

\* lines 80-81: words[-20:]
OverlapWords(current_chunk) == LastN(split_ws(current_chunk), overlap_count)

\* the buffer after a closed chunk without the sentence that closed it
SeedBufferNoSentence(current_chunk, sentence) ==
    join(<< Sp >>, OverlapWords(current_chunk)) \o << Dot, Sp >>

\* line 82: the buffer that follows a closed chunk
SeedBuffer(current_chunk, sentence) ==
    join(<< Sp >>, OverlapWords(current_chunk)) \o << Dot, Sp >> \o sentence

\* = in place of +=: the buffer is overwritten by the sentence
AppendBufferOverwrite(current_chunk, sentence) == sentence

\* line 85: the buffer after an append
AppendBuffer(current_chunk, sentence) ==
    current_chunk \o (IF current_chunk # << >> THEN << Dot, Sp >> ELSE << >>)
                  \o sentence

\* lines 69-86: the loop over the sentences, from the given loop state
RECURSIVE ChunkLoop(_, _, _, _, _)
ChunkLoop(sentences, cs, current_chunk, current_length, m) ==
    IF sentences = << >>
    THEN [chunks |-> cs, current_chunk |-> current_chunk]
    ELSE LET sentence == Head(sentences)
             sentence_length == StrLen(sentence)
         IN  IF MustClose(current_length, sentence_length, current_chunk)
             THEN LET nxt == SeedBuffer(current_chunk, sentence)
                  IN  ChunkLoop(Tail(sentences),
                                Append(cs, NewChunk(current_chunk, m, cs)),
                                nxt, StrLen(nxt), m)
             ELSE LET nxt == AppendBuffer(current_chunk, sentence)
                  IN  ChunkLoop(Tail(sentences), cs, nxt, StrLen(nxt), m)

\* create_chunks whose final flush lacks the test of line 89
create_chunks_alwaysflush(t, m) ==
    LET end == ChunkLoop(Sentences(t), << >>, << >>, 0, m)
    IN  Append(end.chunks, NewChunk(end.current_chunk, m, end.chunks))

\* create_chunks without the final flush of lines 88-93
create_chunks_noflush(t, m) ==
    ChunkLoop(Sentences(t), << >>, << >>, 0, m).chunks

\* lines 62-95
create_chunks(t, m) ==
    LET end == ChunkLoop(Sentences(t), << >>, << >>, 0, m)
    IN  IF strip(end.current_chunk) # << >>
        THEN Append(end.chunks, NewChunk(end.current_chunk, m, end.chunks))
        ELSE end.chunks

(***************************************************************************)
(* Inputs of create_chunks: every concatenation of at most MaxPieces       *)
(* pieces.  The pieces are single characters, runs long enough to reach    *)
(* chunk_size in a few sentences, and a phrase of more than 20 words.      *)
(***************************************************************************)
RECURSIVE WordsOf(_)
WordsOf(n) == IF n = 0 THEN << >> ELSE << Sp, 1 >> \o WordsOf(n - 1)

Phrase == << 2 >> \o WordsOf(overlap_count)

Pieces == { << Sp >>, << Dot >>, << 1 >>, << 498 >>, << 499 >>, << 1001 >>,
            Phrase }

RECURSIVE Texts(_)
Texts(n) ==
    IF n = 0 THEN { << >> }
    ELSE LET shorter == Texts(n - 1)
         IN  shorter \cup {p \o t : p \in Pieces, t \in shorter}

Metadatas ==
    { [source |-> "d/a.txt", filename |-> "a.txt"],
      [source |-> "d/a.txt", chunk_index |-> 7] }

InitChunk ==
    /\ text \in Texts(MaxPieces)
    /\ metadata \in Metadatas
    /\ result = << >>
    /\ cpc = "input"
    /\ dirExists = FALSE
    /\ tree = << >>
    /\ files = << >>
    /\ fileIdx = 1
    /\ pc = "idle"
    /\ processed = 0
    /\ failed = 0
    /\ content = << >>
    /\ chunks = << >>
    /\ i = 0
    /\ embeddings = << >>
    /\ ret = FALSE
    /\ table = << >>
    /\ now = 0
    /\ requests = 0
    /\ chunked = << >>
    /\ sent = << >>
    /\ inserts = << >>
    /\ calls = << >>

CallCreateChunks ==
    /\ cpc = "input"
    /\ result' = create_chunks(text, metadata)
    /\ cpc' = "returned"
    /\ UNCHANGED << text, metadata >>
    /\ UNCHANGED pipeVars

NextChunk == CallCreateChunks

SpecChunk == InitChunk /\ [][NextChunk]_vars

(***************************************************************************)
(* Properties of create_chunks (checked under SpecChunk)                   *)
(***************************************************************************)
Returned == cpc = "returned"

\* the trimmed, non-blank, period-delimited units of the input
Units == Sentences(text)

IsPrefix(p, s) == Len(p) <= Len(s) /\ SubSeq(s, 1, Len(p)) = p

RECURSIVE SumLen(_)
SumLen(parts) ==
    IF parts = << >> THEN 0 ELSE StrLen(Head(parts)) + SumLen(Tail(parts))

Joiner == << Dot, Sp >>

\* the overlap seed of the chunk that follows a chunk of content c:
\* the last min(20, w) words of c joined by single spaces
SeedOf(c) ==
    LET w == split_ws(c)
        n == IF Len(w) < 20 THEN Len(w) ELSE 20
    IN  join(<< Sp >>, SubSeq(w, Len(w) - n + 1, Len(w)))

\* the content of chunk k without its overlap seed and the joiner after it
BodyOf(k) ==
    IF k = 1 THEN result[1].content
    ELSE LET lead == Len(SeedOf(result[k - 1].content)) + Len(Joiner)
         IN  SubSeq(result[k].content, lead + 1, Len(result[k].content))

\* the units chunk k holds besides its overlap seed
BodyUnitsOf(k) == MapStrip(split(BodyOf(k), Dot))

\* C4 as stated: every chunk is at most chunk_size characters long, unless it
\* holds a single sentence unit (besides its overlap seed) that is by itself
\* longer than chunk_size.
C4_ChunkLengthBound ==
    Returned =>
        \A k \in 1..Len(result) :
            \/ StrLen(result[k].content) <= chunk_size
            \/ /\ Len(BodyUnitsOf(k)) = 1
               /\ StrLen(BodyUnitsOf(k)[1]) > chunk_size

\* C4 amended: every chunk is at most chunk_size + 2 characters long (the
\* size test does not count the 2-character joiner), unless it holds a single
\* sentence unit besides its overlap seed.
C4_SoftBound ==
    Returned =>
        \A k \in 1..Len(result) :
            \/ StrLen(result[k].content) <= chunk_size + 2
            \/ Len(BodyUnitsOf(k)) = 1

\* a chunk of two units reached chunk_size + 2 characters
C4_Witness ==
    /\ Returned
    /\ \E k \in 1..Len(result) :
          /\ Len(BodyUnitsOf(k)) >= 2
          /\ StrLen(result[k].content) = chunk_size + 2

\* C5 as stated: a text shorter than chunk_size gives exactly one chunk, with
\* chunk_index 0.
C5_ShortTextOneChunk ==
    (Returned /\ StrLen(text) < chunk_size) =>
        /\ Len(result) = 1
        /\ result[1].metadata["chunk_index"] = 0

\* C5 amended: a text with at least one non-blank unit whose units, re-joined
\* by '. ', are at most chunk_size characters long gives exactly one chunk,
\* with chunk_index 0.
C5_JoinedWithinSizeOneChunk ==
    (Returned /\ Units # << >> /\ StrLen(join(Joiner, Units)) <= chunk_size) =>
        /\ Len(result) = 1
        /\ result[1].metadata["chunk_index"] = 0

\* a text whose re-joined units are exactly chunk_size long was chunked
C5_Witness ==
    /\ Returned
    /\ Len(Units) >= 2
    /\ StrLen(join(Joiner, Units)) = chunk_size
    /\ Len(result) = 1

\* C6 as stated: three non-blank sentences whose lengths sum to less than
\* chunk_size give exactly one chunk holding the three joined by '. '.
C6_ThreeSentencesBelowSize ==
    (Returned /\ Len(Units) = 3 /\ SumLen(Units) < chunk_size) =>
        /\ Len(result) = 1
        /\ result[1].content = join(Joiner, Units)

\* C6 amended: three non-blank sentences whose lengths sum to at most
\* chunk_size - 2 give exactly one chunk holding the three joined by '. '.
C6_ThreeSentencesFit ==
    (Returned /\ Len(Units) = 3 /\ SumLen(Units) <= chunk_size - 2) =>
        /\ Len(result) = 1
        /\ result[1].content = join(Joiner, Units)

\* three sentences whose lengths sum to exactly chunk_size - 2 were chunked
C6_Witness ==
    /\ Returned
    /\ Len(Units) = 3
    /\ SumLen(Units) = chunk_size - 2
    /\ Len(result) = 1

\* C7: every chunk after the first begins with the overlap seed of the chunk
\* before it (its last min(20, w) words joined by single spaces), followed by
\* '. ' and one whole unit of the text.
C7_OverlapSeed ==
    Returned =>
        \A k \in 2..Len(result) :
            \E u \in 1..Len(Units) :
                LET c == result[k].content
                    pre == SeedOf(result[k - 1].content) \o Joiner \o Units[u]
                IN  /\ IsPrefix(pre, c)
                    /\ Len(c) = Len(pre) \/ c[Len(pre) + 1] = Dot

\* a chunk of more than 20 words was closed and seeded the next chunk
C7_Witness ==
    /\ Returned
    /\ Len(result) >= 2
    /\ Len(split_ws(result[1].content)) > 20

\* the units of chunks k..Len(result), seeds removed, in emission order
RECURSIVE BodyUnits(_)
BodyUnits(k) ==
    IF k > Len(result) THEN << >>
    ELSE BodyUnitsOf(k) \o BodyUnits(k + 1)

\* C8: with the overlap seed removed from every chunk after the first, the
\* units of all chunks in emission order are exactly the units of the text:
\* each once, whole, in the original order.
C8_Reconstruction ==
    Returned =>
        /\ \A k \in 2..Len(result) :
              IsPrefix(SeedOf(result[k - 1].content) \o Joiner,
                       result[k].content)
        /\ BodyUnits(1) = Units

\* a text of at least three units was split into several chunks, one of
\* which holds two units besides its seed
C8_Witness ==
    /\ Returned
    /\ Len(result) >= 2
    /\ Len(Units) > Len(result)

\* C9: the chunk at emission position k (0-based) has chunk_index k, and every
\* other metadata key of the chunk is that of the metadata passed in.
C9_ChunkIndex ==
    Returned =>
        \A k \in 1..Len(result) :
            /\ result[k].metadata["chunk_index"] = k - 1
            /\ DOMAIN result[k].metadata =
                  (DOMAIN metadata) \cup {"chunk_index"}
            /\ \A key \in (DOMAIN metadata) \ {"chunk_index"} :
                  result[k].metadata[key] = metadata[key]

\* three chunks were emitted for a metadata that already had a chunk_index
C9_Witness ==
    /\ Returned
    /\ Len(result) >= 3
    /\ "chunk_index" \in DOMAIN metadata

(***************************************************************************)
(* The pipeline: process_directory and process_file                        *)
(*                                                                         *)
(* The directory tree is a sequence of entries, each with the extension   *)
(* of its name and the text its extractor yields when it does not raise.   *)
(* The collected list holds distinct paths; file f of the list is named by *)
(* its position f, and files[f] is the text of its entry.  Only names with *)
(* a supported extension are collected, so the branch of extract_text for  *)
(* other suffixes, which returns the empty string as a raising parser      *)
(* does, is never taken from process_directory.                            *)
(***************************************************************************)
RECURSIVE LongText(_)
LongText(n) ==
    IF n = 1 THEN << 1001 >> ELSE << 1000 + n, Dot >> \o LongText(n - 1)

BlankText == << Sp, Sp >>
DotsText == << Dot, Sp, Dot >>
ShortText == << 1, Dot, Sp, 1 >>

FileTexts == { BlankText, DotsText, ShortText,
               LongText(batch_size + 1), LongText(2 * batch_size + 1) }

\* line 185
supported_extensions ==
    { ".txt", ".md", ".pdf", ".docx", ".png", ".jpg", ".jpeg", ".tiff" }

\* the entries a tree is drawn from: a name's extension and the text its
\* extractor yields; two supported extensions and one that is not
DirEntries ==
    {[ext |-> ".txt", text |-> t] : t \in FileTexts}
        \cup { [ext |-> ".pdf", text |-> ShortText],
               [ext |-> ".exe", text |-> ShortText] }

RECURSIVE Trees(_)
Trees(n) ==
    IF n = 0 THEN { << >> }
    ELSE LET shorter == Trees(n - 1)
         IN  shorter \cup {<< e >> \o l : e \in DirEntries, l \in shorter}

\* the orders in which the loop of line 188 may visit the extensions that
\* occur in a tree (supported_extensions is a set: its order is not fixed)
ExtensionOrders == { << ".txt", ".pdf" >>, << ".pdf", ".txt" >> }

\* directory.rglob('*' + ext): the entries whose name ends in ext
rglob(entries, ext) == SelectSeq(entries, LAMBDA e : e.ext = ext)

RECURSIVE TextsOf(_)
TextsOf(entries) ==
    IF entries = << >> THEN << >>
    ELSE << Head(entries).text >> \o TextsOf(Tail(entries))

\* a collection that globs every name, whatever its extension
CollectAll(entries, order) == TextsOf(entries)

\* lines 186-189: files.extend(directory.rglob(...)) for each extension
RECURSIVE Collect(_, _)
Collect(entries, order) ==
    IF order = << >> THEN << >>
    ELSE TextsOf(rglob(entries, Head(order))) \o Collect(entries, Tail(order))

Call(op, f, at, ok, n) == [op |-> op, file |-> f, i |-> at, ok |-> ok, n |-> n]

\* lines 143-148
FileMetadata(f, c) ==
    [source |-> f, filename |-> f, directory |-> "dir", file_size |-> StrLen(c)]

\* chunks[i:i + batch_size - 1]: the last chunk of a full batch is left out
BatchShort(cs, at) == Slice(cs, at, at + batch_size - 1)

\* line 158: chunks[i:i + batch_size]
Batch(cs, at) == Slice(cs, at, at + batch_size)

\* line 159: [chunk['content'] for chunk in batch]
Contents(batch) == [k \in 1..Len(batch) |-> batch[k].content]

\* the embedding service: request number r answers one item per input text,
\* in input order; the vector of the text at position k is named << r, k >>
ServiceResponse(r, texts) ==
    [data |-> [k \in 1..Len(texts) |-> [embedding |-> << r, k >>]]]

\* line 104: [item['embedding'] for item in response['data']]
EmbeddingsOf(response) ==
    [k \in 1..Len(response.data) |-> response.data[k].embedding]

\* the metadata copied whole, chunk_index included
WithChunkIndexKept(m) == m

\* line 117: {k: v for k, v in chunk_meta.items() if k != 'chunk_index'}
WithoutChunkIndex(m) == [k \in (DOMAIN m) \ {"chunk_index"} |-> m[k]]

\* lines 114-121: the record built for one (chunk, embedding) pair
Row(chunk, embedding, t) ==
    [content |-> chunk.content,
     metadata |-> WithoutChunkIndex(chunk.metadata),
     chunk_index |-> chunk.metadata["chunk_index"],
     embedding |-> embedding,
     created_at |-> t]

\* lines 112-121: zip stops at the shorter argument
DataToInsert(batch, embs, t) ==
    [k \in 1..(IF Len(batch) < Len(embs) THEN Len(batch) ELSE Len(embs)) |->
        Row(batch[k], embs[k], t)]

Init ==
    /\ text = << >>
    /\ metadata = [source |-> "d/a.txt", filename |-> "a.txt"]
    /\ result = << >>
    /\ cpc = "idle"
    /\ dirExists \in BOOLEAN
    /\ tree \in (IF dirExists THEN Trees(MaxFiles) ELSE { << >> })
    /\ files = << >>
    /\ fileIdx = 1
    /\ pc = "start"
    /\ processed = 0
    /\ failed = 0
    /\ content = << >>
    /\ chunks = << >>
    /\ i = 0
    /\ embeddings = << >>
    /\ ret = FALSE
    /\ table = << >>
    /\ now = 0
    /\ requests = 0
    /\ chunked = << >>
    /\ sent = << >>
    /\ inserts = << >>
    /\ calls = << >>

\* process_file returns v (lines 140, 154, 171, 175)
Return(v) ==
    /\ ret' = v
    /\ pc' = "returned"

\* lines 180-182: the directory does not exist; process_directory returns
NoDirectory ==
    /\ pc = "start"
    /\ ~dirExists
    /\ pc' = "absent"
    /\ UNCHANGED << dirExists, tree, files, chunked, sent, inserts,
                    fileIdx, processed, failed, content, chunks, i,
                    embeddings, ret, table, now, requests, calls >>
    /\ UNCHANGED chunkVars

\* lines 184-194: the files of the supported extensions are collected and
\* the counters start at zero
CollectFiles ==
    /\ pc = "start"
    /\ dirExists
    /\ \E order \in ExtensionOrders : files' = Collect(tree, order)
    /\ chunked' = [f \in 1..Len(files') |-> << >>]
    /\ processed' = 0
    /\ failed' = 0
    /\ pc' = "loop"
    /\ UNCHANGED << dirExists, tree, sent, inserts, fileIdx, content, chunks,
                    i, embeddings, ret, table, now, requests, calls >>
    /\ UNCHANGED chunkVars

\* lines 196-197, 133: the loop takes the next file and calls process_file
NextFile ==
    /\ pc = "loop"
    /\ fileIdx <= Len(files)
    /\ pc' = "extract"
    /\ calls' = Append(calls, Call("process_file", fileIdx, 0, TRUE, 0))
    /\ UNCHANGED << dirExists, tree, files, chunked, sent, inserts,
                    fileIdx, processed, failed, content, chunks, i,
                    embeddings, ret, table, now, requests >>
    /\ UNCHANGED chunkVars

\* lines 136-140 with extract_text (39-60): an exception of the parser is
\* caught inside extract_text and becomes the empty string
ExtractText ==
    /\ pc = "extract"
    /\ \E raises \in BOOLEAN :
          /\ content' = IF raises THEN << >> ELSE files[fileIdx]
          /\ calls' = Append(calls,
                             Call("extract_text", fileIdx, 0, ~raises, 0))
    /\ IF strip(content') = << >>
       THEN Return(FALSE)
       ELSE pc' = "chunk" /\ UNCHANGED ret
    /\ UNCHANGED << dirExists, tree, files, chunked, sent, inserts,
                    fileIdx, processed, failed, chunks, i, embeddings,
                    table, now, requests >>
    /\ UNCHANGED chunkVars

\* process_file without the check of lines 152-154
CreateChunksNoEmptyCheck ==
    /\ pc = "chunk"
    /\ chunks' = create_chunks(content, FileMetadata(fileIdx, content))
    /\ calls' = Append(calls,
                       Call("create_chunks", fileIdx, 0, TRUE, Len(chunks')))
    /\ i' = 0
    /\ IF chunks' = << >>
       THEN Return(TRUE)
       ELSE pc' = "embed" /\ UNCHANGED ret
    /\ chunked' = [chunked EXCEPT ![fileIdx] = chunks']
    /\ UNCHANGED << dirExists, tree, files, sent, inserts, fileIdx,
                    processed, failed, content, embeddings, table, now,
                    requests >>
    /\ UNCHANGED chunkVars

\* lines 142-157: metadata, create_chunks, the empty check, the loop start
CreateChunks ==
    /\ pc = "chunk"
    /\ chunks' = create_chunks(content, FileMetadata(fileIdx, content))
    /\ calls' = Append(calls,
                       Call("create_chunks", fileIdx, 0, TRUE, Len(chunks')))
    /\ i' = 0
    /\ IF chunks' = << >>
       THEN Return(FALSE)
       ELSE pc' = "embed" /\ UNCHANGED ret
    /\ chunked' = [chunked EXCEPT ![fileIdx] = chunks']
    /\ UNCHANGED << dirExists, tree, files, sent, inserts, fileIdx,
                    processed, failed, content, embeddings, table, now,
                    requests >>
    /\ UNCHANGED chunkVars

\* generate_embeddings that returns [] on an error instead of re-raising
GenerateEmbeddingsSwallow ==
    /\ pc = "embed"
    /\ requests' = requests + 1
    /\ sent' = Append(sent, [file |-> fileIdx, i |-> i,
                             texts |-> Contents(Batch(chunks, i))])
    /\ \E ok \in BOOLEAN :
          /\ calls' = Append(calls, Call("generate_embeddings", fileIdx, i,
                                         ok, requests'))
          /\ embeddings' =
                IF ok
                THEN EmbeddingsOf(
                        ServiceResponse(requests', Contents(Batch(chunks, i))))
                ELSE << >>
    /\ pc' = "store"
    /\ UNCHANGED << dirExists, tree, files, chunked, inserts,
                    fileIdx, processed, failed, content, chunks, i,
                    ret, table, now >>
    /\ UNCHANGED chunkVars

\* generate_embeddings that tries a failed request a second time
GenerateEmbeddingsRetry ==
    /\ pc = "embed"
    /\ requests' = requests + 1
    /\ sent' = Append(sent, [file |-> fileIdx, i |-> i,
                             texts |-> Contents(Batch(chunks, i))])
    /\ \E ok \in BOOLEAN :
          /\ calls' = Append(calls, Call("generate_embeddings", fileIdx, i,
                                         ok, requests'))
          /\ IF ok
             THEN /\ embeddings' = EmbeddingsOf(
                        ServiceResponse(requests', Contents(Batch(chunks, i))))
                  /\ pc' = "store"
                  /\ UNCHANGED ret
             ELSE /\ IF \E r \in 1..Len(sent) :
                           sent[r].file = fileIdx /\ sent[r].i = i
                     THEN Return(FALSE)
                     ELSE UNCHANGED << pc, ret >>
                  /\ UNCHANGED embeddings
    /\ UNCHANGED << dirExists, tree, files, chunked, inserts,
                    fileIdx, processed, failed, content, chunks, i,
                    table, now >>
    /\ UNCHANGED chunkVars

\* lines 158-162 with generate_embeddings (97-107): the service answers, or
\* raises; the exception is re-raised and caught at line 173
GenerateEmbeddings ==
    /\ pc = "embed"
    /\ requests' = requests + 1
    /\ sent' = Append(sent, [file |-> fileIdx, i |-> i,
                             texts |-> Contents(Batch(chunks, i))])
    /\ \E ok \in BOOLEAN :
          /\ calls' = Append(calls, Call("generate_embeddings", fileIdx, i,
                                         ok, requests'))
          /\ IF ok
             THEN /\ embeddings' = EmbeddingsOf(
                        ServiceResponse(requests', Contents(Batch(chunks, i))))
                  /\ pc' = "store"
                  /\ UNCHANGED ret
             ELSE /\ Return(FALSE)
                  /\ UNCHANGED embeddings
    /\ UNCHANGED << dirExists, tree, files, chunked, inserts,
                    fileIdx, processed, failed, content, chunks, i,
                    table, now >>
    /\ UNCHANGED chunkVars

\* store_chunks that inserts row by row: a failure leaves the first row stored
StoreChunksRowByRow ==
    /\ pc = "store"
    /\ LET data_to_insert == DataToInsert(Batch(chunks, i), embeddings, now)
       IN  \E ok \in BOOLEAN :
              /\ calls' = Append(calls, Call("insert", fileIdx, i, ok,
                                             Len(data_to_insert)))
              /\ inserts' = Append(inserts, [file |-> fileIdx, i |-> i,
                                             ok |-> ok,
                                             rows |-> data_to_insert])
              /\ IF ok
                 THEN /\ table' = table \o data_to_insert
                      /\ pc' = "sleep"
                      /\ UNCHANGED ret
                 ELSE /\ Return(FALSE)
                      /\ table' = table \o SubSeq(data_to_insert, 1, 1)
    /\ UNCHANGED << dirExists, tree, files, chunked, sent,
                    fileIdx, processed, failed, content, chunks, i,
                    embeddings, now, requests >>
    /\ UNCHANGED chunkVars

\* process_file without the delay of line 168: the loop goes on at once
StoreChunksNoSleep ==
    /\ pc = "store"
    /\ LET data_to_insert == DataToInsert(Batch(chunks, i), embeddings, now)
       IN  \E ok \in BOOLEAN :
              /\ calls' = Append(calls, Call("insert", fileIdx, i, ok,
                                             Len(data_to_insert)))
              /\ inserts' = Append(inserts, [file |-> fileIdx, i |-> i,
                                             ok |-> ok,
                                             rows |-> data_to_insert])
              /\ IF ok
                 THEN /\ table' = table \o data_to_insert
                      /\ i' = i + batch_size
                      /\ IF i' < Len(chunks)
                         THEN pc' = "embed" /\ UNCHANGED ret
                         ELSE Return(TRUE)
                 ELSE /\ Return(FALSE)
                      /\ UNCHANGED << table, i >>
    /\ UNCHANGED << dirExists, tree, files, chunked, sent,
                    fileIdx, processed, failed, content, chunks,
                    embeddings, now, requests >>
    /\ UNCHANGED chunkVars

\* line 165 with store_chunks (109-128): one insert of the whole batch, which
\* the store accepts whole or rejects; a rejection is re-raised and caught at
\* line 173
StoreChunks ==
    /\ pc = "store"
    /\ LET data_to_insert == DataToInsert(Batch(chunks, i), embeddings, now)
       IN  \E ok \in BOOLEAN :
              /\ calls' = Append(calls, Call("insert", fileIdx, i, ok,
                                             Len(data_to_insert)))
              /\ inserts' = Append(inserts, [file |-> fileIdx, i |-> i,
                                             ok |-> ok,
                                             rows |-> data_to_insert])
              /\ IF ok
                 THEN /\ table' = table \o data_to_insert
                      /\ pc' = "sleep"
                      /\ UNCHANGED ret
                 ELSE /\ Return(FALSE)
                      /\ UNCHANGED table
    /\ UNCHANGED << dirExists, tree, files, chunked, sent,
                    fileIdx, processed, failed, content, chunks, i,
                    embeddings, now, requests >>
    /\ UNCHANGED chunkVars

\* the loop of line 157 with a step one short of batch_size
SleepStepShort ==
    /\ pc = "sleep"
    /\ now' = now + 1
    /\ i' = i + batch_size - 1
    /\ calls' = Append(calls, Call("sleep", fileIdx, i, TRUE, 0))
    /\ IF i' < Len(chunks)
       THEN pc' = "embed" /\ UNCHANGED ret
       ELSE Return(TRUE)
    /\ UNCHANGED << dirExists, tree, files, chunked, sent, inserts,
                    fileIdx, processed, failed, content, chunks,
                    embeddings, table, requests >>
    /\ UNCHANGED chunkVars

\* line 168, then the loop head (157) and, after the last batch, lines 170-171
Sleep ==
    /\ pc = "sleep"
    /\ now' = now + 1
    /\ i' = i + batch_size
    /\ calls' = Append(calls, Call("sleep", fileIdx, i, TRUE, 0))
    /\ IF i' < Len(chunks)
       THEN pc' = "embed" /\ UNCHANGED ret
       ELSE Return(TRUE)
    /\ UNCHANGED << dirExists, tree, files, chunked, sent, inserts,
                    fileIdx, processed, failed, content, chunks,
                    embeddings, table, requests >>
    /\ UNCHANGED chunkVars

\* a failed file ends the loop, as an exception leaving process_file would
CountFileAbort ==
    /\ pc = "returned"
    /\ IF ret
       THEN processed' = processed + 1 /\ UNCHANGED failed
       ELSE failed' = failed + 1 /\ UNCHANGED processed
    /\ calls' = Append(calls, Call("return", fileIdx, 0, ret, 0))
    /\ fileIdx' = fileIdx + 1
    /\ pc' = IF ret THEN "loop" ELSE "done"
    /\ UNCHANGED << dirExists, tree, files, chunked, sent, inserts,
                    content, chunks, i, embeddings, ret, table, now,
                    requests >>
    /\ UNCHANGED chunkVars

\* the loop without its else: a processed file is counted as failed too
CountFileBoth ==
    /\ pc = "returned"
    /\ processed' = (IF ret THEN processed + 1 ELSE processed)
    /\ failed' = failed + 1
    /\ calls' = Append(calls, Call("return", fileIdx, 0, ret, 0))
    /\ fileIdx' = fileIdx + 1
    /\ pc' = "loop"
    /\ UNCHANGED << dirExists, tree, files, chunked, sent, inserts,
                    content, chunks, i, embeddings, ret, table, now,
                    requests >>
    /\ UNCHANGED chunkVars

\* lines 197-200: the result of process_file moves one counter
CountFile ==
    /\ pc = "returned"
    /\ IF ret
       THEN processed' = processed + 1 /\ UNCHANGED failed
       ELSE failed' = failed + 1 /\ UNCHANGED processed
    /\ calls' = Append(calls, Call("return", fileIdx, 0, ret, 0))
    /\ fileIdx' = fileIdx + 1
    /\ pc' = "loop"
    /\ UNCHANGED << dirExists, tree, files, chunked, sent, inserts,
                    content, chunks, i, embeddings, ret, table, now,
                    requests >>
    /\ UNCHANGED chunkVars

\* line 206: the list is exhausted
Complete ==
    /\ pc = "loop"
    /\ fileIdx > Len(files)
    /\ pc' = "done"
    /\ UNCHANGED << dirExists, tree, files, chunked, sent, inserts,
                    fileIdx, processed, failed, content, chunks, i,
                    embeddings, ret, table, now, requests, calls >>
    /\ UNCHANGED chunkVars

Next ==
    \/ NoDirectory
    \/ CollectFiles
    \/ NextFile
    \/ ExtractText
    \/ CreateChunks
    \/ GenerateEmbeddings
    \/ StoreChunks
    \/ Sleep
    \/ CountFile
    \/ Complete

Spec == Init /\ [][Next]_vars

(***************************************************************************)
(* Properties of the pipeline (checked under Spec)                         *)
(***************************************************************************)
CallIdx == 1..Len(calls)

IsCall(n, op, f) == calls[n].op = op /\ calls[n].file = f

\* process_file returned v for file f and the loop counted it
ReturnedWith(f, v) ==
    \E n \in CallIdx : IsCall(n, "return", f) /\ calls[n].ok = v

\* the chunks create_chunks returned for file f
ChunksOf(f) == chunked[f]

\* the rows of the table that come from file f, in insertion order
RowsOf(f) == SelectSeq(table, LAMBDA r : r.metadata.source = f)

\* file f failed at some step: a call for it raised, its text was blank, or
\* chunking gave no chunk
FailedStep(f) ==
    \/ \E n \in CallIdx :
          calls[n].file = f /\ calls[n].op # "return" /\ ~calls[n].ok
    \/ /\ \E n \in CallIdx : IsCall(n, "extract_text", f)
       /\ strip(files[f]) = << >>
    \/ \E n \in CallIdx : IsCall(n, "create_chunks", f) /\ calls[n].n = 0

\* the rows of file f are the records of its chunks 0..k-1, in order
RowsAreChunksBelow(f, k) ==
    LET rows == RowsOf(f)
        cs == ChunksOf(f)
    IN  /\ Len(rows) = k
        /\ \A j \in 1..k :
              /\ rows[j].chunk_index = j - 1
              /\ rows[j].content = cs[j].content

\* after call n, the only call for file f is the return of False
LastCallBeforeFailure(n, f) ==
    \A m \in CallIdx :
        (m > n /\ calls[m].file = f) =>
            (calls[m].op = "return" /\ ~calls[m].ok)

\* C1: process_file is called once on every file of the list, in list order;
\* a file that fails at any step returns False and is counted in failed, never
\* in processed; the files after it are still processed.
C1_EveryFileProcessed ==
    /\ \A f \in 1..Len(files) :
          f < fileIdx =>
              /\ Cardinality({n \in CallIdx : IsCall(n, "process_file", f)}) = 1
              /\ Cardinality({n \in CallIdx : IsCall(n, "return", f)}) = 1
              /\ FailedStep(f) => ReturnedWith(f, FALSE)
    /\ \A n, m \in CallIdx :
          (/\ n < m
           /\ calls[n].op = "process_file"
           /\ calls[m].op = "process_file") => calls[n].file < calls[m].file
    /\ processed =
          Cardinality({n \in CallIdx : calls[n].op = "return" /\ calls[n].ok})
    /\ failed =
          Cardinality({n \in CallIdx : calls[n].op = "return" /\ ~calls[n].ok})
    /\ pc = "done" => fileIdx = Len(files) + 1

\* the run completed, a file whose extraction raised was followed by a file
\* that was processed
C1_Witness ==
    /\ pc = "done"
    /\ \E f, g \in 1..Len(files) :
          /\ f < g
          /\ \E n \in CallIdx : IsCall(n, "extract_text", f) /\ ~calls[n].ok
          /\ ReturnedWith(g, TRUE)

\* C2: when the embedding call of batch k of a file raises, no insert and no
\* further embedding call is issued for the file, the file returns False and
\* is counted as failed, and the table holds for it exactly the records of
\* the batches before k, from then on.
C2_EmbeddingErrorFailsFile ==
    \A n \in CallIdx :
        (calls[n].op = "generate_embeddings" /\ ~calls[n].ok) =>
            LET f == calls[n].file
            IN  /\ LastCallBeforeFailure(n, f)
                /\ f < fileIdx => (ReturnedWith(f, FALSE) /\ failed >= 1)
                /\ RowsAreChunksBelow(f, calls[n].i)

\* the embedding call of a later batch of a file raised after an earlier
\* batch was stored, and the run completed
C2_Witness ==
    /\ pc = "done"
    /\ \E n \in CallIdx :
          /\ calls[n].op = "generate_embeddings"
          /\ ~calls[n].ok
          /\ calls[n].i >= batch_size

\* C3: when the insert of batch k of a file raises, the insert carried the
\* whole batch and none of its records is in the table, no further embedding
\* or store call is issued for the file, the file returns False and is counted
\* as failed, and the table holds for it exactly the records of the batches
\* before k, from then on.
C3_StoreErrorFailsFile ==
    \A n \in CallIdx :
        (calls[n].op = "insert" /\ ~calls[n].ok) =>
            LET f == calls[n].file
                left == Len(ChunksOf(f)) - calls[n].i
            IN  /\ calls[n].n = IF left < batch_size THEN left ELSE batch_size
                /\ LastCallBeforeFailure(n, f)
                /\ f < fileIdx => (ReturnedWith(f, FALSE) /\ failed >= 1)
                /\ RowsAreChunksBelow(f, calls[n].i)

\* the insert of a later batch of a file raised after an earlier batch was
\* stored, and the run completed
C3_Witness ==
    /\ pc = "done"
    /\ \E n \in CallIdx :
          /\ calls[n].op = "insert"
          /\ ~calls[n].ok
          /\ calls[n].i >= batch_size

\* the number of the embedding request that carried chunk j (1-based) of
\* file f
RequestOf(f, j) ==
    LET at == ((j - 1) \div batch_size) * batch_size
        n == CHOOSE n \in CallIdx :
                 IsCall(n, "generate_embeddings", f) /\ calls[n].i = at
    IN  calls[n].n

\* C10: a file with N chunks that is counted as processed has exactly N rows
\* in the table, one per chunk_index 0..N-1, and the embedding of each row is
\* the vector the service returned for that chunk's position in its batch.
C10_OneRecordPerChunk ==
    \A f \in 1..Len(files) :
        ReturnedWith(f, TRUE) =>
            LET N == Len(ChunksOf(f))
                rows == RowsOf(f)
            IN  /\ N >= 1
                /\ RowsAreChunksBelow(f, N)
                /\ \A j \in 1..N :
                      rows[j].embedding =
                          << RequestOf(f, j), ((j - 1) % batch_size) + 1 >>

\* a file of more than two batches was counted as processed
C10_Witness ==
    \E f \in 1..Len(files) :
        /\ ReturnedWith(f, TRUE)
        /\ Len(RowsOf(f)) > 2 * batch_size

\* the place of file f in the life cycle of process_file
FileState(f) ==
    IF f < fileIdx
    THEN (IF ReturnedWith(f, TRUE) THEN "done" ELSE "failed")
    ELSE IF f > fileIdx
    THEN "start"
    ELSE CASE pc = "chunk" -> "extracted"
           [] pc = "embed" -> (IF i = 0 THEN "chunked" ELSE "stored")
           [] pc = "store" -> "embedded"
           [] pc = "sleep" -> "stored"
           [] pc = "returned" -> (IF ret THEN "done" ELSE "failed")
           [] OTHER -> "start"

\* the steps of the life cycle
FileStep(a, b) ==
    \/ a = b
    \/ a = "start" /\ b = "extracted"
    \/ a = "extracted" /\ b = "chunked"
    \/ a \in {"chunked", "stored"} /\ b = "embedded"
    \/ a = "embedded" /\ b = "stored"
    \/ a \in {"chunked", "stored"} /\ b = "done"
    \/ a \notin {"done", "failed"} /\ b = "failed"

\* the calls that reach an external service or a parser
IsServiceCall(n) ==
    calls[n].op \in {"extract_text", "generate_embeddings", "insert"}

\* the order of the calls within one file and between files
CallOrder ==
    \A n \in CallIdx :
        LET c == calls[n]
        IN  /\ c.op = "insert" =>
                  \E m \in 1..(n - 1) :
                     /\ IsCall(m, "generate_embeddings", c.file)
                     /\ calls[m].i = c.i
                     /\ calls[m].ok
            /\ (c.op = "generate_embeddings" /\ c.i > 0) =>
                  \E m, d \in 1..(n - 1) :
                     /\ m < d
                     /\ IsCall(m, "insert", c.file)
                     /\ calls[m].i = c.i - batch_size
                     /\ calls[m].ok
                     /\ IsCall(d, "sleep", c.file)
                     /\ calls[d].i = c.i - batch_size
            /\ (c.op = "insert" /\ c.ok /\ n < Len(calls)) =>
                  IsCall(n + 1, "sleep", c.file)
            /\ IsServiceCall(n) =>
                  \A f \in 1..(c.file - 1) :
                     \E m \in 1..(n - 1) : IsCall(m, "return", f)
            /\ c.op = "return" =>
                  \A m \in CallIdx : m > n => calls[m].file > c.file

\* C11: every file moves start -> extracted -> chunked -> (embedded ->
\* stored)* -> done, or to failed from any state that is not terminal, and
\* never leaves done or failed; the insert of a batch comes after the
\* embedding call of that batch returned, the embedding call of the next
\* batch after the insert and the delay that follows every stored batch, and
\* no extraction, embedding or store call of a file comes before every file
\* ahead of it has returned.
C11_FileLifeCycle ==
    /\ [][\A f \in 1..Len(files) : FileStep(FileState(f), FileState(f)')]_vars
    /\ []CallOrder

\* the run completed; a file of more than one batch was processed, and the
\* file after it reached the store
C11_Witness ==
    /\ pc = "done"
    /\ \E f, g \in 1..Len(files) :
          /\ f < g
          /\ FileState(f) = "done"
          /\ \E n \in CallIdx :
                IsCall(n, "generate_embeddings", f) /\ calls[n].i > 0
          /\ \E n \in CallIdx : IsCall(n, "insert", g)

\* call n is one at which file f fails: it raised, it extracted a blank
\* text, or it chunked the text into nothing
FailureAt(n, f) ==
    /\ calls[n].file = f
    /\ \/ calls[n].op # "return" /\ ~calls[n].ok
       \/ calls[n].op = "extract_text" /\ strip(files[f]) = << >>
       \/ calls[n].op = "create_chunks" /\ calls[n].n = 0

\* C12: nothing is retried: a file is extracted at most once, each batch of
\* a file is sent to the embedding service at most once and to the store at
\* most once, and after the first failure of a file no extraction, embedding
\* or store call is issued for it.
C12_NoRetries ==
    /\ \A f \in 1..Len(files) :
          Cardinality({n \in CallIdx : IsCall(n, "extract_text", f)}) <= 1
    /\ \A n, m \in CallIdx :
          (/\ n # m
           /\ calls[n].op \in {"generate_embeddings", "insert"}
           /\ calls[m].op = calls[n].op
           /\ calls[m].file = calls[n].file) => calls[m].i # calls[n].i
    /\ \A r, q \in 1..Len(sent) :
          (r # q /\ sent[r].file = sent[q].file) => sent[r].i # sent[q].i
    /\ \A r, q \in 1..Len(inserts) :
          (r # q /\ inserts[r].file = inserts[q].file) =>
              inserts[r].i # inserts[q].i
    /\ \A n, m \in CallIdx :
          (n < m /\ FailureAt(n, calls[m].file)) => ~IsServiceCall(m)

\* the run completed; the embedding call of one file and the insert of
\* another raised
C12_Witness ==
    /\ pc = "done"
    /\ \E n, m \in CallIdx :
          /\ calls[n].op = "generate_embeddings" /\ ~calls[n].ok
          /\ calls[m].op = "insert" /\ ~calls[m].ok
          /\ calls[n].file # calls[m].file

\* the extraction of file f gave a blank text: the parser raised, or the
\* text holds nothing but whitespace
BlankExtraction(f) ==
    \E n \in CallIdx :
        /\ IsCall(n, "extract_text", f)
        /\ (~calls[n].ok \/ strip(files[f]) = << >>)

\* the text of file f was chunked into nothing
NoChunks(f) ==
    \E n \in CallIdx : IsCall(n, "create_chunks", f) /\ calls[n].n = 0

\* C13: a file whose extracted text is blank (empty or whitespace only, the
\* empty result of a failed extraction included) or whose text gives no chunk
\* is counted as failed, no embedding and no store call is issued for it, and
\* the run goes on with the next file.
C13_BlankFileFails ==
    \A f \in 1..Len(files) :
        (BlankExtraction(f) \/ NoChunks(f)) =>
            /\ \A n \in CallIdx :
                  calls[n].file = f =>
                      calls[n].op \notin {"generate_embeddings", "insert"}
            /\ \A r \in 1..Len(sent) : sent[r].file # f
            /\ \A r \in 1..Len(inserts) : inserts[r].file # f
            /\ RowsOf(f) = << >>
            /\ f < fileIdx => (ReturnedWith(f, FALSE) /\ failed >= 1)
            /\ pc = "done" =>
                  \A g \in (f + 1)..Len(files) :
                     \E n \in CallIdx : IsCall(n, "process_file", g)

\* the run completed; a whitespace-only file or a file of periods failed
\* and a processed file followed
C13_Witness ==
    /\ pc = "done"
    /\ \E f, g \in 1..Len(files) :
          /\ f < g
          /\ \/ /\ \E n \in CallIdx :
                      IsCall(n, "extract_text", f) /\ calls[n].ok
                /\ strip(files[f]) = << >>
             \/ NoChunks(f)
          /\ ReturnedWith(f, FALSE)
          /\ RowsOf(g) # << >>
          /\ ReturnedWith(g, TRUE)

\* no entry of the tree has a supported extension
NoSupportedFile ==
    \A k \in 1..Len(tree) : tree[k].ext \notin supported_extensions

\* C14: when the directory tree holds no file with a supported extension,
\* process_directory ends with processed = 0 and failed = 0 and issues no
\* extraction, embedding or store call.
C14_NothingToProcess ==
    (dirExists /\ NoSupportedFile) =>
        /\ processed = 0
        /\ failed = 0
        /\ calls = << >>
        /\ sent = << >>
        /\ inserts = << >>
        /\ table = << >>
        /\ pc \in {"start", "loop", "done"}

\* the run completed on a tree that holds files, none of them supported
C14_Witness ==
    /\ pc = "done"
    /\ dirExists
    /\ tree # << >>
    /\ NoSupportedFile

\* the rows of the inserts that the store accepted, in order
RECURSIVE AcceptedRows(_)
AcceptedRows(ins) ==
    IF ins = << >> THEN << >>
    ELSE (IF Head(ins).ok THEN Head(ins).rows ELSE << >>)
            \o AcceptedRows(Tail(ins))

\* the calls of the store, in order
InsertCalls == SelectSeq(calls, LAMBDA c : c.op = "insert")

\* C17: for every (chunk, embedding) pair of a batch store_chunks builds one
\* record: its content is the content of the chunk, its chunk_index is the
\* chunk_index of the metadata of the chunk, its metadata is the metadata of
\* the chunk without the key chunk_index and with every other key unchanged;
\* the chunk is not modified; the records of a batch go to the store in one
\* insert, in batch order.
C17_RecordOfChunk ==
    /\ \A r \in 1..Len(inserts) :
          LET p == inserts[r]
              cs == chunked[p.file]
              size == IF Len(cs) - p.i < batch_size THEN Len(cs) - p.i
                      ELSE batch_size
          IN  /\ Len(p.rows) = size
              /\ \A k \in 1..size :
                    LET chunk == cs[p.i + k]
                        row == p.rows[k]
                    IN  /\ row.content = chunk.content
                        /\ row.chunk_index = chunk.metadata.chunk_index
                        /\ row.chunk_index = p.i + k - 1
                        /\ DOMAIN row.metadata =
                              (DOMAIN chunk.metadata) \ {"chunk_index"}
                        /\ \A key \in DOMAIN row.metadata :
                              row.metadata[key] = chunk.metadata[key]
    /\ Len(InsertCalls) = Len(inserts)
    /\ \A r \in 1..Len(inserts) :
          /\ InsertCalls[r].file = inserts[r].file
          /\ InsertCalls[r].i = inserts[r].i
          /\ InsertCalls[r].n = Len(inserts[r].rows)
    /\ table = AcceptedRows(inserts)
    /\ pc \in {"embed", "store", "sleep"} => chunks = chunked[fileIdx]

\* the store took the full first batch and the shorter last batch of a file
C17_Witness ==
    \E r, q \in 1..Len(inserts) :
        /\ inserts[r].file = inserts[q].file
        /\ inserts[r].ok
        /\ inserts[q].ok
        /\ Len(inserts[r].rows) = batch_size
        /\ Len(inserts[q].rows) = 1
        /\ pc = "sleep"

\* the embedding requests issued for file f, in order
SentFor(f) == SelectSeq(sent, LAMBDA q : q.file = f)

\* process_file returned True for file f
Succeeded(f) ==
    \/ ReturnedWith(f, TRUE)
    \/ f = fileIdx /\ pc = "returned" /\ ret

\* C18: for a file of N >= 1 chunks that meets no failure, process_file
\* issues exactly ceil(N / batch_size) embedding requests; request j, counted
\* from 0, carries the contents of chunks j * batch_size up to
\* min((j + 1) * batch_size, N) - 1 in chunk order, so every request holds
\* between 1 and batch_size texts and every chunk is sent in exactly one
\* request.
C18_RequestsPerFile ==
    \A f \in 1..Len(files) :
        Succeeded(f) =>
            LET cs == chunked[f]
                N == Len(cs)
                reqs == SentFor(f)
                Hi(j) == IF (j + 1) * batch_size < N THEN (j + 1) * batch_size
                         ELSE N
            IN  /\ N >= 1
                /\ Len(reqs) = (N + batch_size - 1) \div batch_size
                /\ \A j \in 0..(Len(reqs) - 1) :
                      /\ reqs[j + 1].texts =
                            [k \in 1..(Hi(j) - j * batch_size) |->
                                cs[j * batch_size + k].content]
                      /\ Len(reqs[j + 1].texts) \in 1..batch_size
                /\ \A c \in 1..N :
                      Cardinality({r \in 1..Len(reqs) :
                          \E k \in 1..Len(reqs[r].texts) :
                              reqs[r].i + k = c}) = 1

\* a file of 2 * batch_size + 1 chunks, each of a content of its own, was
\* processed in three requests
C18_Witness ==
    \E f \in 1..Len(files) :
        /\ Succeeded(f)
        /\ Len(chunked[f]) = 2 * batch_size + 1
        /\ Len(SentFor(f)) = 3
        /\ \A a, b \in 1..Len(chunked[f]) :
              a # b => chunked[f][a].content # chunked[f][b].content

\* the number of files for which process_file has returned to the loop
ReturnedFiles ==
    Cardinality({f \in 1..Len(files) :
                    \E n \in CallIdx : IsCall(n, "return", f)})

\* one step of the counters: neither decreases, and they move exactly when
\* a file returns, one of them, by 1
CounterStep ==
    /\ processed' >= processed
    /\ failed' >= failed
    /\ IF ReturnedFiles' # ReturnedFiles
       THEN /\ ReturnedFiles' = ReturnedFiles + 1
            /\ \/ processed' = processed + 1 /\ failed' = failed
               \/ failed' = failed + 1 /\ processed' = processed
       ELSE processed' = processed /\ failed' = failed

\* C19: at every point of process_directory processed + failed is the number
\* of files for which process_file has returned; neither counter decreases,
\* every file moves exactly one of them by exactly 1, and at completion
\* processed + failed is the number of collected files.
C19_CountersAccountForFiles ==
    /\ [](processed + failed = ReturnedFiles)
    /\ [][CounterStep]_vars
    /\ [](pc = "done" => processed + failed = Len(files))

\* the run completed with files in both counters
C19_Witness ==
    /\ pc = "done"
    /\ processed >= 1
    /\ failed >= 1
    /\ processed + failed = Len(files)

(***************************************************************************)
(* Further properties of create_chunks (checked under SpecChunk)           *)
(***************************************************************************)

\* C15: no chunk create_chunks emits has an empty content after trimming,
\* and the content of every chunk is itself trimmed.
C15_ContentTrimmedNonEmpty ==
    Returned =>
        \A k \in 1..Len(result) :
            /\ strip(result[k].content) # << >>
            /\ strip(result[k].content) = result[k].content

\* a text that starts and ends with whitespace was cut into several chunks
C15_Witness ==
    /\ Returned
    /\ Len(result) >= 2
    /\ Len(text) >= 2
    /\ text[1] = Sp
    /\ text[Len(text)] = Sp

\* the text holds nothing but periods and whitespace
OnlyPeriodsAndSpace(t) == \A k \in 1..Len(t) : t[k] \in {Sp, Dot}

\* C16: create_chunks returns the empty list on the empty text, whatever the
\* metadata, and on every text whose period-delimited units are all blank,
\* that is, on every text of periods and whitespace only.
C16_BlankTextNoChunks ==
    Returned =>
        /\ text = << >> => result = << >>
        /\ OnlyPeriodsAndSpace(text) => result = << >>
        /\ (\A k \in 1..Len(split(text, Dot)) :
               strip(split(text, Dot)[k]) = << >>) => result = << >>

\* create_chunks returned on a text that mixes periods and whitespace, with
\* a metadata that carries a chunk_index of its own
C16_Witness ==
    /\ Returned
    /\ \E j, k \in 1..Len(text) : text[j] = Sp /\ text[k] = Dot
    /\ OnlyPeriodsAndSpace(text)
    /\ "chunk_index" \in DOMAIN metadata
    /\ result = << >>

\* chunk k starts with the overlap seed of chunk k - 1 and the joiner
StartsWithSeed(k) ==
    k > 1 => IsPrefix(SeedOf(result[k - 1].content) \o Joiner,
                      result[k].content)

\* C20: every chunk create_chunks emits holds at least one sentence unit that
\* is not part of its overlap seed, so the number of chunks never exceeds the
\* number of non-blank sentence units, and create_chunks returns after one
\* pass over the units.
C20_ChunkHoldsNewUnit ==
    Returned =>
        LET units == Units
        IN  /\ \A k \in 1..Len(result) :
                  LET body == BodyUnitsOf(k)
                  IN  /\ StartsWithSeed(k)
                      /\ body # << >>
                      /\ \A u \in 1..Len(body) : body[u] # << >>
                      /\ \E u \in 1..Len(units) : body[1] = units[u]
            /\ Len(result) <= Len(units)

\* every unit of a text of three units closed the buffer: as many chunks as
\* units
C20_Witness ==
    /\ Returned
    /\ Len(Units) = 3
    /\ Len(result) = 3

====
